---------------------------- MODULE Spec2Model ----------------------------
(***************************************************************************)
(* A model of aws-iam-keys-finder in its two variants:                     *)
(*   "main_go"  - src/main.go, one thread doing checkout, scan, validate   *)
(*   "part_000" - src/unnamed/part_000, one goroutine per commit and one   *)
(*                goroutine per key found.                                 *)
(* The repository is a list of revisions (newest first, as git log prints  *)
(* them), each giving the content of every file.  The working tree is one  *)
(* directory shared by every checkout and every scan.                      *)
(***************************************************************************)
EXTENDS Integers, Sequences, FiniteSets, TLC

\* ------------------------------------------------------------------ bounds
MaxCommits == 2
NumFiles == 2

Files == 1..NumFiles

\* ------------------------------------------------------- file contents
\* A line of a file: label, separator, optional quote, value.
Line(label, sep, quote, value) ==
    [label |-> label, sep |-> sep, quote |-> quote, value |-> value]

\* (?i): the case-insensitive comparison of the labels the patterns name.
Lower(s) ==
    CASE s = "AWS_ACCESS_KEY_ID" -> "aws_access_key_id"
      [] s = "AWS_SECRET_ACCESS_KEY" -> "aws_secret_access_key"
      [] OTHER -> s

NoKeys == << >>
KeyA == << Line("AWS_ACCESS_KEY_ID", "=", "", "AKIA1"),
           Line("AWS_SECRET_ACCESS_KEY", "=", "", "s1") >>

FileContents == {NoKeys, KeyA}

\* ------------------------------------------------------------ git log
\* A commit hash is one symbol k >= 1; NL is the "\n" between two hashes.
NL == 0

RECURSIVE Join(_)
\* git log --pretty=format:%H : the hashes, newest first, "\n" between them.
Join(hashes) ==
    IF hashes = << >> THEN << >>
    ELSE IF Len(hashes) = 1 THEN << hashes[1] >>
    ELSE << hashes[1], NL >> \o Join(Tail(hashes))

RECURSIVE Split(_)
\* strings.Split(output, "\n"): always at least one element, "" for "".
Split(s) ==
    IF \A k \in 1..Len(s) : s[k] # NL THEN << s >>
    ELSE LET k == CHOOSE j \in 1..Len(s) :
                      s[j] = NL /\ \A m \in 1..(j - 1) : s[m] # NL
         IN << SubSeq(s, 1, k - 1) >> \o Split(SubSeq(s, k + 1, Len(s)))

\* --------------------------------------------------- searchIAMKeysInFile
\* main.go: AWS_ACCESS_KEY_ID=([A-Z0-9]+), submatch 1 is the key value.
accessKeyIDs_main(content) ==
    LET M(l) == l.label = "AWS_ACCESS_KEY_ID" /\ l.sep = "=" /\ l.quote = ""
        ms == SelectSeq(content, M)
    IN [k \in 1..Len(ms) |-> ms[k].value]

\* main.go: (?i)AWS_SECRET_ACCESS_KEY=([^ \t\r\n\v\f]+), submatch 1 is the value.
secretAccessKeys_main(content) ==
    LET M(l) == Lower(l.label) = "aws_secret_access_key" /\ l.sep = "="
        ms == SelectSeq(content, M)
    IN [k \in 1..Len(ms) |-> ms[k].value]

\* part_000: (?i)(AWS_ACCESS_KEY_ID|aws_access_key_id)[=:]["']?([\w\/\+]+)["']?
\* the code reads submatch 1, which is the label group.
accessKeyIDs_part000(content) ==
    LET M(l) == Lower(l.label) = "aws_access_key_id" /\ l.sep \in {"=", ":"}
        ms == SelectSeq(content, M)
    IN [k \in 1..Len(ms) |-> ms[k].label]

\* part_000: (?i)(AWS_SECRET_ACCESS_KEY|aws_secret_access_key)[=:]["']?(...)
\* the code reads submatch 1, which is the label group.
secretAccessKeys_part000(content) ==
    LET M(l) == Lower(l.label) = "aws_secret_access_key" /\ l.sep \in {"=", ":"}
        ms == SelectSeq(content, M)
    IN [k \in 1..Len(ms) |-> ms[k].label]

\* A slip: make(map[string]string) moved into the loop, so that every put
\* starts from an empty map.
MapPut_mapRemade(m, k, v) == [x \in {k} |-> v]

\* iamKeys[accessKeyID] = secretAccessKey
MapPut(m, k, v) == [x \in DOMAIN m \cup {k} |-> IF x = k THEN v ELSE m[x]]

RECURSIVE InnerLoop(_, _, _)
\* for _, secretMatch := range secretAccessKeys { iamKeys[accessKeyID] = ... }
InnerLoop(m, id, secrets) ==
    IF secrets = << >> THEN m
    ELSE InnerLoop(MapPut(m, id, Head(secrets)), id, Tail(secrets))

RECURSIVE OuterLoop(_, _, _)
\* for _, match := range accessKeyIDs { ... }
OuterLoop(m, ids, secrets) ==
    IF ids = << >> THEN m
    ELSE OuterLoop(InnerLoop(m, Head(ids), secrets), Tail(ids), secrets)

EmptyMap == [x \in {} |-> ""]

searchIAMKeysInFile_main(content) ==
    OuterLoop(EmptyMap, accessKeyIDs_main(content), secretAccessKeys_main(content))

searchIAMKeysInFile_part000(content) ==
    OuterLoop(EmptyMap, accessKeyIDs_part000(content),
              secretAccessKeys_part000(content))

\* Every (file, identifier, secret) entry of foundIAMKeys[path] = iamKeys.
Entries(f, iamKeys) ==
    {[file |-> f, id |-> k, secret |-> iamKeys[k]] : k \in DOMAIN iamKeys}

\* ------------------------------------------------------- validateIAMKey
\* What the authority can answer to one call: the key is active, the key is
\* unknown to it, or the call fails (session, network, throttling, timeout).
Outcomes == {"active", "unknown", "error"}

\* main.go: false when the session or GetCallerIdentity fails, true otherwise.
validateIAMKey_main(outcome) ==
    IF outcome = "error" THEN FALSE
    ELSE IF outcome = "unknown" THEN FALSE
    ELSE TRUE

\* part_000: false on NoSuchEntity, false on every other error, true when the
\* result names a user.
validateIAMKey_part000(outcome) ==
    IF outcome = "unknown" THEN FALSE
    ELSE IF outcome = "error" THEN FALSE
    ELSE TRUE

\* --------------------------------------------------------------- state
VARIABLES
    variant,         \* which program runs: "main_go" or "part_000"
    repo,            \* the history: repo[k][f] is the content of file f at revision k
    commitHashes,    \* the slice getCommitHashes returns
    tree,            \* the working tree: tree[f] is the revision whose f is on disk
    indexLock,       \* git's index.lock, held by a running git checkout
    main,            \* the main function: [pc, i]
    task,            \* per commit of commitHashes: the loop body / goroutine
    keys,            \* part_000: the goroutines spawned per key found
    errChan,         \* part_000: the buffered error channel
    validKeysFound,  \* the flag main reads for its summary
    output,          \* what was printed
    calls,           \* history: every validateIAMKey call started
    answers,         \* history: each (authority outcome, result) a call returned
    validated,       \* history: per commit and identifier, what "if valid" saw
    reads,           \* history: every file read of a scan, with what it observed
    proc             \* the process: "running", "exit0" or "fatal"

vars == << variant, repo, commitHashes, tree, indexLock, main, task, keys,
           errChan, validKeysFound, output, calls, answers, validated, reads,
           proc >>

\* make(chan error, 1)
ErrChanCap == 1

Repos == UNION {[1..n -> [Files -> FileContents]] : n \in 0..MaxCommits}

IdleTask == [pc |-> "idle", file |-> 0, found |-> {}, todo |-> {},
             cur |-> << >>, err |-> ""]

\* The revision a commit hash names; 0 when it names none ("" does not).
Resolve(hash) ==
    IF Len(hash) = 1 /\ hash[1] \in 1..Len(repo) THEN hash[1] ELSE 0

\* The content a read of file f observes now.
OnDisk(f) == IF tree[f] = 0 THEN NoKeys ELSE repo[tree[f]][f]

\* A line of output, by its text: output is the set of the lines printed.
OutLine(kind, c, id) == [kind |-> kind, commit |-> c, id |-> id]

Init ==
    /\ variant \in {"main_go", "part_000"}
    /\ repo \in Repos
    /\ commitHashes = << >>
    \* git clone leaves the newest revision checked out
    /\ tree = [f \in Files |-> IF repo = << >> THEN 0 ELSE 1]
    /\ indexLock = FALSE
    /\ main = [pc |-> "getCommitHashes", i |-> 0]
    /\ task = << >>
    /\ keys = {}
    /\ errChan = << >>
    /\ validKeysFound = FALSE
    /\ output = {}
    /\ calls = {}
    /\ answers = {}
    /\ validated = {}
    /\ reads = {}
    /\ proc = "running"

\* log.Fatalf: print and exit(1); every goroutine dies with the process.
Fatal(what, c) ==
    /\ proc' = "fatal"
    /\ output' = output \cup {OutLine(what, c, "")}

\* ------------------------------------------------------ getCommitHashes
\* git log fails in a repository without any commit.
GitLogFails ==
    /\ proc = "running"
    /\ main.pc = "getCommitHashes"
    /\ repo = << >>
    /\ Fatal("fatal: getCommitHashes", 0)
    /\ UNCHANGED << variant, repo, commitHashes, tree, indexLock, main, task,
                    keys, errChan, validKeysFound, calls, answers, validated,
                    reads >>

getCommitHashes ==
    /\ proc = "running"
    /\ main.pc = "getCommitHashes"
    /\ commitHashes' = Split(Join([k \in 1..Len(repo) |-> k]))
    /\ task' = [c \in 1..Len(commitHashes') |-> IdleTask]
    /\ main' = [pc |-> "loop", i |-> 1]
    /\ UNCHANGED << variant, repo, tree, indexLock, keys, errChan,
                    validKeysFound, output, calls, answers, validated, reads,
                    proc >>

\* ------------------------------------------------------- checkoutCommit
\* git checkout <hash> can succeed only for a hash that names a revision and
\* only while no other git checkout holds index.lock.
CanCheckout(c) == Resolve(commitHashes[c]) # 0 /\ ~indexLock

\* What git checkout leaves behind once it has rewritten file f: after the
\* last file it releases index.lock and checkoutCommit returns nil.
Written(c, f) ==
    /\ tree' = [tree EXCEPT ![f] = Resolve(commitHashes[c])]
    /\ IF f = NumFiles
         THEN /\ indexLock' = FALSE
              /\ task' = [task EXCEPT ![c].pc = "scan", ![c].file = 1]
         ELSE /\ indexLock' = TRUE
              /\ task' = [task EXCEPT ![c].pc = "write", ![c].file = f + 1]

\* git checkout starts: it takes index.lock and rewrites the first file.
CheckoutStarts(c) ==
    /\ CanCheckout(c)
    /\ Written(c, 1)

\* git checkout rewrites the next file of the tree.
CheckoutWrite(c) ==
    /\ proc = "running"
    /\ task[c].pc = "write"
    /\ Written(c, task[c].file)
    /\ UNCHANGED << variant, repo, commitHashes, main, keys, errChan,
                    validKeysFound, output, calls, answers, validated, reads,
                    proc >>

\* -------------------------------------------------- searchIAMKeysInRepo
searchIAMKeysInFile(content) ==
    IF variant = "main_go" THEN searchIAMKeysInFile_main(content)
    ELSE searchIAMKeysInFile_part000(content)

\* The walk function on one regular file that is read without error.
WalkFile(c) ==
    LET f == task[c].file
        content == OnDisk(f)
        iamKeys == searchIAMKeysInFile(content)
        found == IF DOMAIN iamKeys # {}
                   THEN task[c].found \cup Entries(f, iamKeys)
                   ELSE task[c].found
    IN /\ reads' = reads \cup {[commit |-> c, file |-> f, content |-> content]}
       /\ IF f = NumFiles
            THEN task' = [task EXCEPT ![c].pc = "validate", ![c].file = 0,
                                      ![c].found = found, ![c].todo = found]
            ELSE task' = [task EXCEPT ![c].file = f + 1, ![c].found = found]

\* ------------------------------------------------------ calls and prints
CallRec(c, e, site) ==
    [commit |-> c, file |-> e.file, id |-> e.id, site |-> site]

Answer(outcome, valid) == [outcome |-> outcome, valid |-> valid]

\* What the "if valid := validateIAMKey(...); valid" of commit c saw for e.
Verdict(c, e, valid) == [commit |-> c, id |-> e.id, valid |-> valid]

\* A slip in the Printf arguments: the secret printed in place of the identifier.
ValidLine_secretPrinted(c, e) == OutLine("valid", c, e.secret)

\* fmt.Printf("Valid IAM key found in commit %s: %s\n", commitHash, accessKeyID)
ValidLine(c, e) == OutLine("valid", c, e.id)

\* ================================================================ main.go
\* for _, commitHash := range commitHashes
MainLoop ==
    /\ proc = "running"
    /\ variant = "main_go"
    /\ main.pc = "loop"
    /\ IF main.i <= Len(commitHashes)
         THEN /\ main' = [main EXCEPT !.pc = "body"]
              /\ task' = [task EXCEPT ![main.i].pc = "checkout"]
         ELSE /\ main' = [main EXCEPT !.pc = "summary"]
              /\ task' = task
    /\ UNCHANGED << variant, repo, commitHashes, tree, indexLock, keys,
                    errChan, validKeysFound, output, calls, answers,
                    validated, reads, proc >>

\* err := checkoutCommit(repoPath, commitHash), the call succeeding
MainCheckout ==
    /\ proc = "running"
    /\ variant = "main_go"
    /\ main.pc = "body"
    /\ task[main.i].pc = "checkout"
    /\ CheckoutStarts(main.i)
    /\ UNCHANGED << variant, repo, commitHashes, main, keys, errChan,
                    validKeysFound, output, calls, answers, validated, reads,
                    proc >>

\* if err != nil { log.Fatalf("Error checking out commit ...") }
MainCheckoutFails ==
    /\ proc = "running"
    /\ variant = "main_go"
    /\ main.pc = "body"
    /\ task[main.i].pc = "checkout"
    /\ Fatal("fatal: checkout", main.i)
    /\ UNCHANGED << variant, repo, commitHashes, tree, indexLock, main, task,
                    keys, errChan, validKeysFound, calls, answers, validated,
                    reads >>

\* searchIAMKeysInRepo: the walk reads the next file
MainScan ==
    /\ proc = "running"
    /\ variant = "main_go"
    /\ main.pc = "body"
    /\ task[main.i].pc = "scan"
    /\ WalkFile(main.i)
    /\ UNCHANGED << variant, repo, commitHashes, tree, indexLock, main, keys,
                    errChan, validKeysFound, output, calls, answers,
                    validated, proc >>

\* a file cannot be read: the walk stops, searchIAMKeysInRepo returns the
\* error and main ends in log.Fatalf("Error searching for IAM keys ...")
MainScanFails ==
    /\ proc = "running"
    /\ variant = "main_go"
    /\ main.pc = "body"
    /\ task[main.i].pc = "scan"
    /\ Fatal("fatal: scan", main.i)
    /\ UNCHANGED << variant, repo, commitHashes, tree, indexLock, main, task,
                    keys, errChan, validKeysFound, calls, answers, validated,
                    reads >>

\* validateIAMKey(accessKeyID, secretAccessKey) is called for the next entry
MainValidateCall ==
    /\ proc = "running"
    /\ variant = "main_go"
    /\ main.pc = "body"
    /\ task[main.i].pc = "validate"
    /\ \E e \in task[main.i].todo :
         /\ task' = [task EXCEPT ![main.i].pc = "calling", ![main.i].cur = e,
                                 ![main.i].todo = @ \ {e}]
         /\ calls' = calls \cup {CallRec(main.i, e, "main")}
    /\ UNCHANGED << variant, repo, commitHashes, tree, indexLock, main, keys,
                    errChan, validKeysFound, output, answers, validated,
                    reads, proc >>

\* if valid := validateIAMKey(...); valid { validKeysFound = true; Printf }
MainValidateReturn ==
    /\ proc = "running"
    /\ variant = "main_go"
    /\ main.pc = "body"
    /\ task[main.i].pc = "calling"
    /\ \E outcome \in Outcomes :
         LET e == task[main.i].cur
             valid == validateIAMKey_main(outcome)
         IN /\ answers' = answers \cup {Answer(outcome, valid)}
            /\ validKeysFound' = (validKeysFound \/ valid)
            /\ output' = IF valid THEN output \cup {ValidLine(main.i, e)}
                         ELSE output
            /\ validated' = validated \cup {Verdict(main.i, e, valid)}
    /\ task' = [task EXCEPT ![main.i].pc = "validate", ![main.i].cur = << >>]
    /\ UNCHANGED << variant, repo, commitHashes, tree, indexLock, main, keys,
                    errChan, calls, reads, proc >>

\* A slip: the loop over foundIAMKeys left without looking at what is left of
\* it, so that the next commit starts with entries not validated.
MainBodyEnds_entriesLeft ==
    /\ proc = "running"
    /\ variant = "main_go"
    /\ main.pc = "body"
    /\ task[main.i].pc = "validate"
    /\ task' = [task EXCEPT ![main.i].pc = "done"]
    /\ main' = [pc |-> "loop", i |-> main.i + 1]
    /\ UNCHANGED << variant, repo, commitHashes, tree, indexLock, keys,
                    errChan, validKeysFound, output, calls, answers,
                    validated, reads, proc >>

\* the loop body ends: the next commit
MainBodyEnds ==
    /\ proc = "running"
    /\ variant = "main_go"
    /\ main.pc = "body"
    /\ task[main.i].pc = "validate"
    /\ task[main.i].todo = {}
    /\ task' = [task EXCEPT ![main.i].pc = "done"]
    /\ main' = [pc |-> "loop", i |-> main.i + 1]
    /\ UNCHANGED << variant, repo, commitHashes, tree, indexLock, keys,
                    errChan, validKeysFound, output, calls, answers,
                    validated, reads, proc >>

\* if !validKeysFound { fmt.Println("No valid IAM keys found ...") }
\* seen is the value main reads from validKeysFound
Summary(seen) ==
    IF ~seen
      THEN output' = output \cup {OutLine("novalid", 0, "")}
      ELSE output' = output

MainSummary ==
    /\ proc = "running"
    /\ variant = "main_go"
    /\ main.pc = "summary"
    /\ Summary(validKeysFound)
    /\ main' = [main EXCEPT !.pc = "return"]
    /\ UNCHANGED << variant, repo, commitHashes, tree, indexLock, task, keys,
                    errChan, validKeysFound, calls, answers, validated, reads,
                    proc >>

\* main returns: the process exits with status 0
MainReturns ==
    /\ proc = "running"
    /\ variant = "main_go"
    /\ main.pc = "return"
    /\ proc' = "exit0"
    /\ UNCHANGED << variant, repo, commitHashes, tree, indexLock, main, task,
                    keys, errChan, validKeysFound, output, calls, answers,
                    validated, reads >>

NextMainGo ==
    \/ MainLoop
    \/ MainCheckout
    \/ MainCheckoutFails
    \/ MainScan
    \/ MainScanFails
    \/ MainValidateCall
    \/ MainValidateReturn
    \/ MainBodyEnds
    \/ MainSummary
    \/ MainReturns

\* =============================================================== part_000
\* for _, commitHash := range commitHashes { go func(commitHash string) {...} }
Spawn ==
    /\ proc = "running"
    /\ variant = "part_000"
    /\ main.pc = "loop"
    /\ IF main.i <= Len(commitHashes)
         THEN /\ task' = [task EXCEPT ![main.i].pc = "checkout"]
              /\ main' = [main EXCEPT !.i = @ + 1]
         ELSE /\ task' = task
              /\ main' = [pc |-> "poll", i |-> 1]
    /\ UNCHANGED << variant, repo, commitHashes, tree, indexLock, keys,
                    errChan, validKeysFound, output, calls, answers,
                    validated, reads, proc >>

\* select { case err := <-errChan: log.Fatalf("%v", err) ...
PollErr ==
    /\ proc = "running"
    /\ variant = "part_000"
    /\ main.pc = "poll"
    /\ main.i <= Len(commitHashes)
    /\ errChan # << >>
    /\ errChan' = Tail(errChan)
    /\ Fatal(Head(errChan).what, Head(errChan).commit)
    /\ UNCHANGED << variant, repo, commitHashes, tree, indexLock, main, task,
                    keys, validKeysFound, calls, answers, validated, reads >>

\* ... default: } : nothing to receive, the loop goes on
PollDefault ==
    /\ proc = "running"
    /\ variant = "part_000"
    /\ main.pc = "poll"
    /\ main.i <= Len(commitHashes)
    /\ errChan = << >>
    /\ main' = [main EXCEPT !.i = @ + 1]
    /\ UNCHANGED << variant, repo, commitHashes, tree, indexLock, task, keys,
                    errChan, validKeysFound, output, calls, answers,
                    validated, reads, proc >>

\* i reaches len(commitHashes): the loop ends
PollEnds ==
    /\ proc = "running"
    /\ variant = "part_000"
    /\ main.pc = "poll"
    /\ main.i > Len(commitHashes)
    /\ main' = [main EXCEPT !.pc = "summary"]
    /\ UNCHANGED << variant, repo, commitHashes, tree, indexLock, task, keys,
                    errChan, validKeysFound, output, calls, answers,
                    validated, reads, proc >>

\* What main can read from validKeysFound: the goroutines of keys write it and
\* main reads it with no synchronisation between them, so the read may miss
\* a write made before it.
RacyRead == IF validKeysFound THEN {TRUE, FALSE} ELSE {FALSE}

GoSummary ==
    /\ proc = "running"
    /\ variant = "part_000"
    /\ main.pc = "summary"
    /\ \E seen \in RacyRead : Summary(seen)
    /\ main' = [main EXCEPT !.pc = "return"]
    /\ UNCHANGED << variant, repo, commitHashes, tree, indexLock, task, keys,
                    errChan, validKeysFound, calls, answers, validated, reads,
                    proc >>

\* fmt.Printf("\nTotal time taken: ..."), main returns, the process exits
\* with status 0 and every goroutine still running ends with it
GoReturns ==
    /\ proc = "running"
    /\ variant = "part_000"
    /\ main.pc = "return"
    /\ output' = output \cup {OutLine("time", 0, "")}
    /\ proc' = "exit0"
    /\ UNCHANGED << variant, repo, commitHashes, tree, indexLock, main, task,
                    keys, errChan, validKeysFound, calls, answers, validated,
                    reads >>

\* the goroutine of commit c: err := checkoutCommit(...), the call succeeding
GoCheckout(c) ==
    /\ proc = "running"
    /\ variant = "part_000"
    /\ task[c].pc = "checkout"
    /\ CheckoutStarts(c)
    /\ UNCHANGED << variant, repo, commitHashes, main, keys, errChan,
                    validKeysFound, output, calls, answers, validated, reads,
                    proc >>

\* if err != nil { errChan <- ...; return } : the goroutine is about to send
GoCheckoutFails(c) ==
    /\ proc = "running"
    /\ variant = "part_000"
    /\ task[c].pc = "checkout"
    /\ task' = [task EXCEPT ![c].pc = "send", ![c].err = "fatal: checkout"]
    /\ UNCHANGED << variant, repo, commitHashes, tree, indexLock, main, keys,
                    errChan, validKeysFound, output, calls, answers,
                    validated, reads, proc >>

GoScan(c) ==
    /\ proc = "running"
    /\ variant = "part_000"
    /\ task[c].pc = "scan"
    /\ WalkFile(c)
    /\ UNCHANGED << variant, repo, commitHashes, tree, indexLock, main, keys,
                    errChan, validKeysFound, output, calls, answers,
                    validated, proc >>

\* a file cannot be read: searchIAMKeysInRepo returns nil and the error
GoScanFails(c) ==
    /\ proc = "running"
    /\ variant = "part_000"
    /\ task[c].pc = "scan"
    /\ task' = [task EXCEPT ![c].pc = "send", ![c].err = "fatal: scan",
                            ![c].found = {}]
    /\ UNCHANGED << variant, repo, commitHashes, tree, indexLock, main, keys,
                    errChan, validKeysFound, output, calls, answers,
                    validated, reads, proc >>

\* errChan <- err : blocks while the buffer is full
GoSend(c) ==
    /\ proc = "running"
    /\ variant = "part_000"
    /\ task[c].pc = "send"
    /\ Len(errChan) < ErrChanCap
    /\ errChan' = Append(errChan, [what |-> task[c].err, commit |-> c])
    /\ task' = [task EXCEPT ![c].pc = "done"]
    /\ UNCHANGED << variant, repo, commitHashes, tree, indexLock, main, keys,
                    validKeysFound, output, calls, answers, validated, reads,
                    proc >>

\* fmt.Println(validateIAMKey(accessKeyID, secretAccessKey)): the call
GoPrintlnCall(c) ==
    /\ proc = "running"
    /\ variant = "part_000"
    /\ task[c].pc = "validate"
    /\ \E e \in task[c].todo :
         /\ task' = [task EXCEPT ![c].pc = "calling", ![c].cur = e,
                                 ![c].todo = @ \ {e}]
         /\ calls' = calls \cup {CallRec(c, e, "println")}
    /\ UNCHANGED << variant, repo, commitHashes, tree, indexLock, main, keys,
                    errChan, validKeysFound, output, answers, validated,
                    reads, proc >>

\* the call returns, its result is printed, and go func(accessKeyID,
\* secretAccessKey) starts the goroutine of this key, whose first statement
\* is its call of validateIAMKey
GoPrintlnReturn(c) ==
    /\ proc = "running"
    /\ variant = "part_000"
    /\ task[c].pc = "calling"
    /\ LET e == task[c].cur
       IN /\ \E outcome \in Outcomes :
               LET valid == validateIAMKey_part000(outcome)
               IN /\ answers' = answers \cup {Answer(outcome, valid)}
                  /\ output' = output \cup
                       {OutLine(IF valid THEN "true" ELSE "false", 0, "")}
          /\ keys' = keys \cup {[commit |-> c, entry |-> e, pc |-> "calling"]}
          /\ calls' = calls \cup {CallRec(c, e, "go")}
    /\ task' = [task EXCEPT ![c].pc = "validate", ![c].cur = << >>]
    /\ UNCHANGED << variant, repo, commitHashes, tree, indexLock, main,
                    errChan, validKeysFound, validated, reads, proc >>

\* the goroutine of commit c has no entry left and ends
GoEnds(c) ==
    /\ proc = "running"
    /\ variant = "part_000"
    /\ task[c].pc = "validate"
    /\ task[c].todo = {}
    /\ task' = [task EXCEPT ![c].pc = "done"]
    /\ UNCHANGED << variant, repo, commitHashes, tree, indexLock, main, keys,
                    errChan, validKeysFound, output, calls, answers,
                    validated, reads, proc >>

\* if valid := validateIAMKey(...); valid { validKeysFound = true; Printf }
KeyReturn(k) ==
    /\ proc = "running"
    /\ variant = "part_000"
    /\ k.pc = "calling"
    /\ \E outcome \in Outcomes :
         LET valid == validateIAMKey_part000(outcome)
         IN /\ answers' = answers \cup {Answer(outcome, valid)}
            /\ validKeysFound' = (validKeysFound \/ valid)
            /\ output' = IF valid
                           THEN output \cup {ValidLine(k.commit, k.entry)}
                           ELSE output
            /\ validated' = validated \cup {Verdict(k.commit, k.entry, valid)}
    /\ keys' = (keys \ {k}) \cup {[k EXCEPT !.pc = "done"]}
    /\ UNCHANGED << variant, repo, commitHashes, tree, indexLock, main, task,
                    errChan, calls, reads, proc >>

NextPart000 ==
    \/ Spawn
    \/ PollErr
    \/ PollDefault
    \/ PollEnds
    \/ GoSummary
    \/ GoReturns
    \/ \E c \in DOMAIN task :
         \/ GoCheckout(c)
         \/ GoCheckoutFails(c)
         \/ GoScan(c)
         \/ GoScanFails(c)
         \/ GoSend(c)
         \/ GoPrintlnCall(c)
         \/ GoPrintlnReturn(c)
         \/ GoEnds(c)
    \/ \E k \in keys : KeyReturn(k)

Next ==
    \/ GitLogFails
    \/ getCommitHashes
    \/ \E c \in DOMAIN task : CheckoutWrite(c)
    \/ NextMainGo
    \/ NextPart000

Spec == Init /\ [][Next]_vars

\* main.go alone
InitMainGo == Init /\ variant = "main_go"

NextOfMainGo ==
    \/ GitLogFails
    \/ getCommitHashes
    \/ \E c \in DOMAIN task : CheckoutWrite(c)
    \/ NextMainGo

SpecMainGo == InitMainGo /\ [][NextOfMainGo]_vars

\* ================================================================ claims
\* The revision the c-th hash of commitHashes names.
Rev(c) == Resolve(commitHashes[c])

\* git checkout of commit c is rewriting the tree.
CheckoutRunning(c) == task[c].pc = "write"

\* The scan of commit c has read a file and has files left to read.
ScanRunning(c) == task[c].pc = "scan" /\ task[c].file > 1

\* The checkout of commit c has started and its loop body is not over.
CheckoutBegun(c) == task[c].pc \in {"write", "scan", "validate", "calling"}

\* The scan of commit c is over: every file read, or the scan given up.
ScanOver(c) == task[c].pc \in {"validate", "calling", "send", "done"}

\* C1: checkoutCommit(i) completes before the scan of i starts, that scan
\* completes before checkoutCommit(i+1) starts, and no checkout of the shared
\* working tree overlaps a scan or another checkout, in both variants.
C1_HappensBefore ==
    /\ \A c, d \in DOMAIN task :
         c # d => ~(CheckoutRunning(c) /\ (CheckoutRunning(d) \/ ScanRunning(d)))
    /\ \A c \in DOMAIN task :
         (c + 1 \in DOMAIN task /\ CheckoutBegun(c + 1)) => ScanOver(c)

\* C2: every file read of the scan attributed to commit R observes the content
\* of R, and every "Valid IAM key found in commit R: id" line names an
\* identifier that the files of revision R hold.
C2_NoBleed ==
    /\ \A r \in reads : r.content = repo[Rev(r.commit)][r.file]
    /\ \A l \in output :
         l.kind = "valid" =>
           \E f \in Files :
             l.id \in DOMAIN searchIAMKeysInFile(repo[Rev(l.commit)][f])

\* C3: the final output (the summary, the exit) comes only after every
\* revision was checked out and scanned and every validateIAMKey call that
\* was started has returned.
C3_WaitsForAll ==
    (OutLine("novalid", 0, "") \in output \/ main.pc = "return") =>
      /\ \A c \in DOMAIN task : task[c].pc = "done"
      /\ \A k \in keys : k.pc = "done"

\* C4: validateIAMKey is called at most once per identifier over the run.
C4_OncePerIdentifier ==
    \A x, y \in calls : x.id = y.id => x = y

\* C5: a validation that fails for another reason than the authority not
\* knowing the identifier never has the result of a confirmed-invalid key.
C5_FailureIsNotInvalid ==
    \A a, b \in answers :
      (a.outcome = "error" /\ b.outcome = "unknown") => a.valid # b.valid

\* checkoutCommit failed for commit c, in the goroutine of c.
CheckoutFailed(c) == task[c].err = "fatal: checkout"

\* A file of commit c could not be read, in the goroutine of c.
ScanFailed(c) == task[c].err = "fatal: scan"

\* Every file of commit c was read by the scan of c.
Scanned(c) ==
    \A f \in Files : \E r \in reads : r.commit = c /\ r.file = f

\* C6: a checkout failure does not abort the run; the revision contributes
\* no finding and every later revision is still checked out and scanned.
C6_CheckoutFailureSkipsRevision ==
    /\ \A c \in DOMAIN task : OutLine("fatal: checkout", c, "") \notin output
    /\ proc = "exit0" =>
         \A c \in DOMAIN task :
           CheckoutFailed(c) =>
             /\ \A x \in calls : x.commit # c
             /\ \A d \in DOMAIN task :
                  d > c => (Scanned(d) \/ CheckoutFailed(d) \/ ScanFailed(d))

\* C7: a file that cannot be read does not abort the run, and every other
\* file of the same revision is still read.
C7_ReadFailureSkipsFile ==
    /\ \A c \in DOMAIN task : OutLine("fatal: scan", c, "") \notin output
    /\ proc = "exit0" =>
         \A c \in DOMAIN task :
           ScanFailed(c) =>
             \A f \in Files \ {task[c].file} :
               \E r \in reads : r.commit = c /\ r.file = f

\* The validateIAMKey calls in flight.
InFlight ==
    {CallRec(c, task[c].cur, "sync") :
       c \in {d \in DOMAIN task : task[d].pc = "calling"}}
      \cup {CallRec(k.commit, k.entry, "go") :
              k \in {j \in keys : j.pc = "calling"}}

\* C8: the number of validateIAMKey calls in flight has a bound that does
\* not grow with the revisions and candidates: here, it stays below the
\* number of candidates a repository of MaxCommits revisions can hold.
C8_BoundedInFlight ==
    Cardinality(InFlight) < MaxCommits * NumFiles

C10_EmptyRepository ==
    repo = << >> =>
      /\ proc # "fatal"
      /\ \A c \in DOMAIN task : task[c].pc = "idle"
      /\ reads = {}
      /\ calls = {}

\* The identifiers the files of revision k hold, as the patterns match them.
IdsOfRevision(k) ==
    UNION {DOMAIN searchIAMKeysInFile(repo[k][f]) : f \in Files}

\* The "Valid IAM key found" lines of a run over repo in which the authority
\* answers "active" to every call and every validation is waited for: one
\* line per revision and identifier the revision holds.
ReportWhenActive ==
    UNION {{OutLine("valid", c, id) : id \in IdsOfRevision(Rev(c))} :
             c \in {d \in DOMAIN task : Rev(d) # 0}}

\* C11: two complete runs over the same repository, with the authority
\* answering identically, produce the same report under every scheduling.
\* With the authority that answers "active" to every call, one report belongs
\* to each repository: every complete run prints exactly the lines of
\* ReportWhenActive, and the "no valid keys" verdict exactly when there is none.
C11_SameReport ==
    (proc = "exit0" /\ \A a \in answers : a.outcome = "active") =>
      /\ {l \in output : l.kind = "valid"} = ReportWhenActive
      /\ (OutLine("novalid", 0, "") \in output) <=> (ReportWhenActive = {})

\* ------------------------------------- searchIAMKeysInFile on richer files
\* The longest file of the scans below, in lines.
MaxLines == 4

\* The lines of those files: two identifiers, the lower-case, colon and quote
\* form that only the patterns of part_000 match, two secrets, another line.
ScanLines ==
    {Line("AWS_ACCESS_KEY_ID", "=", "", "AKIA1"),
     Line("AWS_ACCESS_KEY_ID", "=", "", "AKIA2"),
     Line("aws_access_key_id", ":", "'", "AKIA1"),
     Line("AWS_SECRET_ACCESS_KEY", "=", "", "s1"),
     Line("AWS_SECRET_ACCESS_KEY", "=", "", "s2"),
     Line("AWS_REGION", "=", "", "r1")}

ScanContents == UNION {[1..n -> ScanLines] : n \in 0..MaxLines}

\* A run over one commit whose first file is any of ScanContents.
InitExtract ==
    /\ variant \in {"main_go", "part_000"}
    /\ \E content \in ScanContents, rest \in [Files -> FileContents] :
         repo = << [f \in Files |-> IF f = 1 THEN content ELSE rest[f]] >>
    /\ commitHashes = << >>
    /\ tree = [f \in Files |-> 1]
    /\ indexLock = FALSE
    /\ main = [pc |-> "getCommitHashes", i |-> 0]
    /\ task = << >>
    /\ keys = {}
    /\ errChan = << >>
    /\ validKeysFound = FALSE
    /\ output = {}
    /\ calls = {}
    /\ answers = {}
    /\ validated = {}
    /\ reads = {}
    /\ proc = "running"

\* The run up to the end of searchIAMKeysInRepo, nothing failing.
NextExtract ==
    \/ getCommitHashes
    \/ MainLoop
    \/ MainCheckout
    \/ MainScan
    \/ Spawn
    \/ \E c \in DOMAIN task :
         \/ CheckoutWrite(c)
         \/ GoCheckout(c)
         \/ GoScan(c)

SpecExtract == InitExtract /\ [][NextExtract]_vars

\* The elements of a slice.
Range(s) == {s[k] : k \in DOMAIN s}

\* accessKeyIDs, match[1] of every match, of the variant that runs.
accessKeyIDs(content) ==
    IF variant = "main_go" THEN accessKeyIDs_main(content)
    ELSE accessKeyIDs_part000(content)

\* secretAccessKeys, secretMatch[1] of every match, of the variant that runs.
secretAccessKeys(content) ==
    IF variant = "main_go" THEN secretAccessKeys_main(content)
    ELSE secretAccessKeys_part000(content)

\* What searchIAMKeysInFile returned for the file read r, as the walk kept it
\* in foundIAMKeys.
FoundIn(r) == {e \in task[r.commit].found : e.file = r.file}

\* C12 as claimed: every combination of a matched identifier and a matched
\* secret of a file is present in what searchIAMKeysInFile returns for it.
C12_EveryPair ==
    \A r \in reads :
      \A id \in Range(accessKeyIDs(r.content)) :
        \A secret \in Range(secretAccessKeys(r.content)) :
          [file |-> r.file, id |-> id, secret |-> secret] \in FoundIn(r)

\* C12 as amended: the result is a map; with no secret match it is empty,
\* otherwise it holds one entry per distinct identifier submatch and no other,
\* each with the submatch of one of the secret matches.
C12_OnePerIdentifier ==
    \A r \in reads :
      LET ids == Range(accessKeyIDs(r.content))
          secrets == Range(secretAccessKeys(r.content))
      IN /\ secrets = {} => FoundIn(r) = {}
         /\ secrets # {} => {e.id : e \in FoundIn(r)} = ids
         /\ \A e \in FoundIn(r) : e.secret \in secrets
         /\ \A e, g \in FoundIn(r) : e.id = g.id => e = g

\* C12 witness: main.go has scanned a file with two identifier matches and two
\* secret matches and kept two entries of the four combinations.
C12_Witness ==
    /\ variant = "main_go"
    /\ \E r \in reads :
         /\ Cardinality(Range(accessKeyIDs(r.content))) = 2
         /\ Cardinality(Range(secretAccessKeys(r.content))) = 2
         /\ Cardinality(FoundIn(r)) = 2

\* The content is an AWS_ACCESS_KEY_ID=<id> line followed by an
\* AWS_SECRET_ACCESS_KEY=<secret> line.
IdThenSecret(content) ==
    /\ Len(content) = 2
    /\ content[1].label = "AWS_ACCESS_KEY_ID"
    /\ content[2].label = "AWS_SECRET_ACCESS_KEY"
    /\ \A k \in 1..2 : content[k].sep = "=" /\ content[k].quote = ""

\* C13: for a file that is an AWS_ACCESS_KEY_ID=<id> line followed by an
\* AWS_SECRET_ACCESS_KEY=<secret> line, searchIAMKeysInFile returns exactly
\* one candidate, the key value <id> with <secret>, in both variants; the
\* identifier is never the label text.
C13_ValueIsIdentifier ==
    \A r \in reads :
      IdThenSecret(r.content) =>
        FoundIn(r) = {[file |-> r.file, id |-> r.content[1].value,
                       secret |-> r.content[2].value]}

\* C14: when an identifier is observed with several different secrets, the
\* secret used for it is the first one seen and no later one overwrites it:
\* of the secret matches of a file, an entry keeps the first.
C14_FirstSecretKept ==
    \A r \in reads :
      \A e \in FoundIn(r) :
        secretAccessKeys(r.content) # << >> =>
          e.secret = secretAccessKeys(r.content)[1]

\* C15: every checkout failure and every scan failure of a run is reported
\* by that run, with its commit: when the process has ended, the error of
\* every goroutine that failed has been printed.
C15_FailuresReported ==
    proc # "running" =>
      \A c \in DOMAIN task :
        (CheckoutFailed(c) \/ ScanFailed(c)) =>
          OutLine(task[c].err, c, "") \in output

\* A validateIAMKey call for a candidate of commit c is in flight.
Validating(c) == \E x \in InFlight : x.commit = c

\* The step that brings the run to the checkout of commit c, or starts it.
WalkTo(c) ==
    \/ MainLoop
    \/ MainCheckout
    \/ MainCheckoutFails
    \/ Spawn
    \/ GoCheckout(c)
    \/ GoCheckoutFails(c)

C17_SummaryConsistent ==
    /\ ~(/\ OutLine("novalid", 0, "") \in output
         /\ \E l \in output : l.kind = "valid")
    /\ proc = "exit0" =>
         ((OutLine("novalid", 0, "") \in output) <=>
            (\A a \in answers : ~a.valid))

\* The goroutine of commit c is blocked in errChan <- err: the buffer is full.
BlockedOnSend(c) == task[c].pc = "send" /\ Len(errChan) >= ErrChanCap

\* C18: every per-commit goroutine of part_000 terminates; a goroutine whose
\* checkout or scan failed is never left blocked on its send to errChan: no
\* run ends with a goroutine still blocked in that send.
C18_SendCompletes ==
    proc # "running" => \A c \in DOMAIN task : ~BlockedOnSend(c)

=============================================================================
